---- MODULE Spec2Model ----
(***************************************************************************)
(* State-machine model of the hooks useFetch and useThrottle.              *)
(*                                                                         *)
(* useFetch: one hook instance, its React state (data, loading, error),    *)
(* its refs (activeController, optionsRef), the props of the last render   *)
(* (baseUrl, params, options) and the requests it has handed to fetch().   *)
(* fetch() is the platform: a request that is in flight settles with any   *)
(* of the outcomes a promise chain of fetch()/response.json() can have.    *)
(* A promise that is already settled when abort() is called keeps its      *)
(* outcome, so an aborted signal does not force the AbortError outcome.    *)
(*                                                                         *)
(* useThrottle: one hook instance, its state throttledValue, its ref       *)
(* lastUpdated, the timer its effect scheduled, and a clock.               *)
(***************************************************************************)
EXTENDS Integers, Sequences, FiniteSets, TLC

VARIABLES
    phase,            \* "rendered" (first render done, effects not run), "mounted", "unmounted"
    baseUrl,          \* useFetch argument of the last render
    params,           \* useFetch argument of the last render
    options,          \* useFetch argument of the last render
    optionsRef,       \* optionsRef.current
    data,             \* useState data (NullData = null)
    loading,          \* useState loading
    error,            \* useState error ("null" = null)
    activeController, \* activeController.current: 0 = null, else the request it belongs to
    req,              \* the requests handed to fetch(), by order of creation
    issued,           \* number of fetchData calls so far
    seenKeys,         \* backend: the Idempotency-Key values it has processed
    rerendered,       \* whether the component has re-rendered since the first commit
    now,              \* Date.now()
    tValue,           \* useThrottle argument value of the last render
    tInterval,        \* useThrottle argument interval of the last render
    throttledValue,   \* useState throttledValue
    lastUpdated,      \* lastUpdated.current
    timers,           \* the pending setTimeout calls, each <<time it is due, value>>
    cleanup,          \* the timer the last effect's cleanup clears, or NoTimer
    tPhase,           \* as phase, for the useThrottle instance
    writes,           \* times of the last two writes of throttledValue, oldest first
    changedAt         \* time of the mount or of the last write that changed throttledValue

fetchVars == <<phase, baseUrl, params, options, optionsRef, data, loading, error,
               activeController, req, issued, seenKeys, rerendered>>
throttleVars == <<now, tValue, tInterval, throttledValue, lastUpdated, timers,
                  cleanup, tPhase, writes, changedAt>>
vars == <<fetchVars, throttleVars>>

-----------------------------------------------------------------------------
(* Bounds *)
MaxRequests == 2
MaxTime == 6

-----------------------------------------------------------------------------
(* useFetch: inputs *)

Methods == {"GET", "POST", "PUT", "DELETE"}
\* options.immediate: omitted, true or false
Immediates == {"undefined", "true", "false"}
\* The property names under which options.headers can hold an idempotency key.
\* JavaScript property names are case-sensitive, HTTP header names are not.
HeaderNames == {"Idempotency-Key", "idempotency-key"}
UserKeyValue == 0
\* options.headers as a plain object: a set of <<property name, value>>.
\* Content-Type and other headers play no part and are left out.
UserHeaders == {{}} \cup {{<<n, UserKeyValue>>} : n \in HeaderNames}
OptionsSet == [method : Methods, headers : UserHeaders, immediate : Immediates]

BaseUrls == {1, 2}
\* params: null, or an object given as its entries <<key, value>> in insertion
\* order. Keys are numbered by their rank in the order Array.prototype.sort
\* gives them.
NullParams == [isNull |-> TRUE, entries |-> <<>>]
ParamsSet == {NullParams,
              [isNull |-> FALSE, entries |-> <<<<1, 1>>, <<2, 1>>>>],
              [isNull |-> FALSE, entries |-> <<<<2, 1>>, <<1, 1>>>>]}
Bodies == {1, 2}
NullData == 0

Requests == 1..MaxRequests

-----------------------------------------------------------------------------
(* useFetch: pure parts *)

\* Array.prototype.sort on the keys: insertion of one entry into a sorted list.
RECURSIVE InsertByKey(_, _)
InsertByKey(e, sorted) ==
    IF sorted = <<>> THEN <<e>>
    ELSE IF e[1] <= Head(sorted)[1] THEN <<e>> \o sorted
    ELSE <<Head(sorted)>> \o InsertByKey(e, Tail(sorted))

RECURSIVE SortByKey(_)
SortByKey(entries) ==
    IF entries = <<>> THEN <<>>
    ELSE InsertByKey(Head(entries), SortByKey(Tail(entries)))

\* queryString built from the keys in insertion order, without the sort
QueryString_Unsorted(p) == IF p.isNull THEN <<>> ELSE p.entries

\* The memoised query string: "" (the empty sequence) for null params, else the
\* entries appended to a URLSearchParams in the order of the sorted keys.
QueryString(p) == IF p.isNull THEN <<>> ELSE SortByKey(p.entries)

\* crypto.randomUUID(): a value no other call returns; the n-th call returns n.
generateUUID(n) == n

\* finalHeaders without the POST branch
FinalHeaders_NeverKeyed(method, headers, uuid) == headers

\* finalHeaders with the spread of options.headers applied after the UUID
FinalHeaders_UserWins(method, headers, uuid) ==
    IF method = "POST" /\ ~(\E h \in headers : h[1] = "Idempotency-Key")
    THEN headers \cup {<<"Idempotency-Key", uuid>>}
    ELSE headers

\* finalHeaders: the spread of options.headers, then for POST the property
\* "Idempotency-Key" is assigned the generated UUID (replacing that property only).
FinalHeaders(method, headers, uuid) ==
    IF method = "POST"
    THEN {h \in headers : h[1] # "Idempotency-Key"} \cup {<<"Idempotency-Key", uuid>>}
    ELSE headers

\* What fetch() sends as the Idempotency-Key header of a request: header names
\* are matched case-insensitively and the values of the properties that spell
\* the same header are all sent (combined into one header value).
WireKey(fh) == {h[2] : h \in fh}

\* fetchData without the abort of the previous controller
AbortPrevious_Missing(rq, c) == rq

\* activeController.current.abort(), guarded by the null check, in fetchData
AbortPrevious(rq, c) == IF c = 0 THEN rq ELSE [rq EXCEPT ![c].aborted = TRUE]

\* the same in the effect's cleanup
CleanupAbort(rq, c) == IF c = 0 THEN rq ELSE [rq EXCEPT ![c].aborted = TRUE]

\* the effect calling fetchData whatever options.immediate is
EffectFetches_Always(immediate) == TRUE

\* the effect's condition for calling fetchData
EffectFetches(immediate) == immediate # "false"

\* err.name and err.message of the three ways the promise chain rejects
ErrName(outcome) ==
    CASE outcome = "http" -> "Error"
      [] outcome = "net" -> "TypeError"
      [] outcome = "abort" -> "AbortError"

ErrMessage(outcome) == outcome

\* setData(result) without the check of the signal
DataAfterSuccess_Unguarded(aborted, old, result) == result

\* if (!currentSignal.aborted) setData(result)
DataAfterSuccess(aborted, old, result) == IF ~aborted THEN result ELSE old

\* catch without the test of err.name
ErrorAfterFailure_Always(name, message, old) == message

\* catch: if (err.name !== "AbortError") setError(err.message)
ErrorAfterFailure(name, message, old) == IF name # "AbortError" THEN message ELSE old

\* finally: if (!currentSignal.aborted) setLoading(false)
LoadingAfterSettle(aborted, old) == IF ~aborted THEN FALSE ELSE old

\* A backend that processes each Idempotency-Key value at most once: a request
\* without the header is always processed.
BackendProcesses(key, seen) == key = {} \/ key \notin seen

Unissued == [status |-> "unissued", aborted |-> FALSE, method |-> "GET",
             headers |-> {}, processed |-> FALSE]

-----------------------------------------------------------------------------
(* useFetch: operations *)

\* fetchData(), called with the refs as they are (rq, c), reading
\* optionsRef.current = o. Runs up to the await of fetch().
FetchData(rq, c, o) ==
    LET id == issued + 1
    IN  /\ req' = [AbortPrevious(rq, c) EXCEPT ![id] =
                      [status |-> "inflight", aborted |-> FALSE, method |-> o.method,
                       headers |-> FinalHeaders(o.method, o.headers, generateUUID(id)),
                       processed |-> FALSE]]
        /\ activeController' = id
        /\ issued' = id
        /\ loading' = TRUE
        /\ error' = "null"

\* The effects of the first commit: optionsRef.current = options, then the
\* fetch effect.
Mount ==
    /\ phase = "rendered"
    /\ phase' = "mounted"
    /\ optionsRef' = options
    /\ IF EffectFetches(options.immediate)
       THEN FetchData(req, activeController, options)
       ELSE UNCHANGED <<req, activeController, issued, loading, error>>
    /\ UNCHANGED <<baseUrl, params, options, data, seenKeys, rerendered, throttleVars>>

\* A call of the returned refetch by the mounted component.
Refetch ==
    /\ phase = "mounted"
    /\ issued < MaxRequests
    /\ FetchData(req, activeController, optionsRef)
    /\ UNCHANGED <<phase, baseUrl, params, options, optionsRef, data, seenKeys,
                   rerendered, throttleVars>>

\* A re-render with arguments u, p, o (new objects, equal or not to the old),
\* and the effects it commits: optionsRef.current = o; the fetch effect's
\* cleanup and body when fetchData (baseUrl, queryString) or options.immediate
\* changed. The caller keeps method and headers over the renders of one
\* instance; baseUrl, params and immediate vary.
Render(u, p, o) ==
    LET changed == u # baseUrl \/ QueryString(p) # QueryString(params)
        rerun == changed \/ o.immediate # options.immediate
        fetches == rerun /\ EffectFetches(o.immediate)
    IN  /\ phase = "mounted"
        /\ o.method = options.method /\ o.headers = options.headers
        /\ fetches => issued < MaxRequests
        /\ rerendered' = TRUE
        /\ baseUrl' = u
        /\ params' = p
        /\ options' = o
        /\ optionsRef' = o
        /\ IF ~rerun
           THEN UNCHANGED <<req, activeController, issued, loading, error>>
           ELSE IF fetches
           THEN FetchData(CleanupAbort(req, activeController), 0, o)
           ELSE /\ req' = CleanupAbort(req, activeController)
                /\ activeController' = 0
                /\ UNCHANGED <<issued, loading, error>>
        /\ UNCHANGED <<phase, data, seenKeys, throttleVars>>

\* Unmount: the fetch effect's cleanup.
Unmount ==
    /\ phase = "mounted"
    /\ phase' = "unmounted"
    /\ req' = CleanupAbort(req, activeController)
    /\ activeController' = 0
    /\ UNCHANGED <<baseUrl, params, options, optionsRef, data, loading, error,
                   issued, seenKeys, rerendered, throttleVars>>

\* The promise chain of request r settles and the rest of fetchData runs:
\* "ok" (2xx and a parsed body `result`), "http" (!response.ok), "net" (fetch or
\* response.json() rejects with another error), "abort" (rejects with
\* AbortError, which needs an aborted signal). `reached` tells whether the
\* backend accepted the request (a response implies it reached the backend; a
\* lost response or an abort tells nothing).
Settle(r, outcome, result, reached) ==
    LET q == req[r]
        key == WireKey(q.headers)
    IN  /\ q.status = "inflight"
        /\ outcome = "abort" => q.aborted
        /\ outcome = "ok" => reached
        /\ (outcome = "ok") = (result # NullData)
        /\ data' = IF outcome = "ok" THEN DataAfterSuccess(q.aborted, data, result)
                   ELSE data
        /\ error' = IF outcome = "ok" THEN error
                    ELSE ErrorAfterFailure(ErrName(outcome), ErrMessage(outcome), error)
        /\ loading' = LoadingAfterSettle(q.aborted, loading)
        /\ req' = [req EXCEPT ![r].status = outcome,
                              ![r].processed = reached /\ BackendProcesses(key, seenKeys)]
        /\ seenKeys' = IF reached /\ key # {} THEN seenKeys \cup {key} ELSE seenKeys
        /\ UNCHANGED <<phase, baseUrl, params, options, optionsRef, activeController,
                       issued, rerendered, throttleVars>>

\* The state after the first render with arguments u, p, o.
FetchRendered(u, p, o) ==
    /\ phase = "rendered"
    /\ baseUrl = u
    /\ params = p
    /\ options = o
    /\ optionsRef = o
    /\ data = NullData
    /\ loading = FALSE
    /\ error = "null"
    /\ activeController = 0
    /\ req = [r \in Requests |-> Unissued]
    /\ issued = 0
    /\ seenKeys = {}
    /\ rerendered = FALSE

FetchInit == \E u \in BaseUrls, p \in ParamsSet, o \in OptionsSet : FetchRendered(u, p, o)

-----------------------------------------------------------------------------
(* useThrottle *)

Values == {1, 2}
Intervals == {0, 2, 3}
NoTimer == <<>>

\* writes, after a write of throttledValue at time t
Written(w, t) == IF Len(w) = 2 THEN <<w[2], t>> ELSE Append(w, t)

\* a cleanup that clears nothing
ClearTimeout_Missing(pending, timerId) == pending

\* clearTimeout(timerId) of the cleanup the last effect returned (none when
\* that effect took the first branch)
ClearTimeout(pending, timerId) == pending \ {timerId}

\* lastUpdated.current without the assignment in the timer's callback
LastUpdatedByTimer_Kept(old, t) == old

\* lastUpdated.current = Date.now() in the timer's callback
LastUpdatedByTimer(old, t) == t

\* changedAt, after the effect or a timer left throttledValue at v at time t:
\* the time of the mount, then of every write of another value
Changed(v, t) == IF v # throttledValue \/ tPhase = "rendered" THEN t ELSE changedAt

\* the effect's test with > for >=
IntervalElapsed_Strict(timeSinceLastUpdate, iv) == timeSinceLastUpdate > iv

\* timeSinceLastUpdate >= interval
IntervalElapsed(timeSinceLastUpdate, iv) == timeSinceLastUpdate >= iv

\* the timer's delay counted from the change of the input
TimerDelay_Restarted(timeSinceLastUpdate, iv) == iv

\* the delay given to setTimeout
TimerDelay(timeSinceLastUpdate, iv) == iv - timeSinceLastUpdate

\* The effect's body for value v and interval iv, the timers being `pending`.
Effect(v, iv, pending) ==
    LET timeSinceLastUpdate == now - lastUpdated
        timerId == <<now + TimerDelay(timeSinceLastUpdate, iv), v>>
    IN  IF IntervalElapsed(timeSinceLastUpdate, iv)
        THEN /\ throttledValue' = v
             /\ lastUpdated' = now
             /\ writes' = Written(writes, now)
             /\ changedAt' = Changed(v, now)
             /\ timers' = pending
             /\ cleanup' = NoTimer
        ELSE /\ timers' = pending \cup {timerId}
             /\ cleanup' = timerId
             /\ changedAt' = Changed(throttledValue, now)
             /\ UNCHANGED <<throttledValue, lastUpdated, writes>>

\* The state after the first render with value v and interval iv at time 0.
ThrottleRendered(v, iv) ==
    /\ now = 0
    /\ tValue = v
    /\ tInterval = iv
    /\ throttledValue = v
    /\ lastUpdated = 0
    /\ timers = {}
    /\ cleanup = NoTimer
    /\ tPhase = "rendered"
    /\ writes = <<0>>
    /\ changedAt = 0

ThrottleInit == \E v \in Values, iv \in Intervals : ThrottleRendered(v, iv)

\* The effect of the first commit.
TMount ==
    /\ tPhase = "rendered"
    /\ tPhase' = "mounted"
    /\ Effect(tValue, tInterval, timers)
    /\ UNCHANGED <<now, tValue, tInterval, fetchVars>>

\* A re-render with another value: the last effect's cleanup, then the effect.
\* Inputs change up to MaxTime.
ChangeValue(v) ==
    /\ tPhase = "mounted"
    /\ now <= MaxTime
    /\ v # tValue
    /\ tValue' = v
    /\ Effect(v, tInterval, ClearTimeout(timers, cleanup))
    /\ UNCHANGED <<now, tInterval, tPhase, fetchVars>>

\* A re-render with another interval: the last effect's cleanup, then the effect.
ChangeInterval(iv) ==
    /\ tPhase = "mounted"
    /\ now <= MaxTime
    /\ iv # tInterval
    /\ tInterval' = iv
    /\ Effect(tValue, iv, ClearTimeout(timers, cleanup))
    /\ UNCHANGED <<now, tValue, tPhase, fetchVars>>

\* A timer that is due (setTimeout runs it then or later) runs its callback.
TimerFires(t) ==
    /\ t \in timers
    /\ now >= t[1]
    /\ timers' = timers \ {t}
    /\ throttledValue' = t[2]
    /\ lastUpdated' = LastUpdatedByTimer(lastUpdated, now)
    /\ writes' = Written(writes, now)
    /\ changedAt' = Changed(t[2], now)
    /\ UNCHANGED <<now, tValue, tInterval, cleanup, tPhase, fetchVars>>

\* Unmount: the last effect's cleanup.
TUnmount ==
    /\ tPhase = "mounted"
    /\ tPhase' = "unmounted"
    /\ timers' = ClearTimeout(timers, cleanup)
    /\ cleanup' = NoTimer
    /\ UNCHANGED <<now, tValue, tInterval, throttledValue, lastUpdated, writes,
                   changedAt, fetchVars>>

\* A millisecond passes: up to MaxTime, and beyond it until the pending timers
\* are due.
Tick ==
    /\ now < MaxTime \/ \E t \in timers : now < t[1]
    /\ now' = now + 1
    /\ UNCHANGED <<tValue, tInterval, throttledValue, lastUpdated, timers, cleanup,
                   tPhase, writes, changedAt, fetchVars>>

\* A millisecond passes while no timer is due: a due timer runs first.
TickPunctual ==
    /\ \A t \in timers : now < t[1]
    /\ Tick

-----------------------------------------------------------------------------
(* Specifications: one hook instance each *)

DefaultOptions == [method |-> "GET", headers |-> {}, immediate |-> "undefined"]

Init == FetchInit /\ ThrottleRendered(1, 0)

Next ==
    \/ Mount
    \/ Refetch
    \/ \E u \in BaseUrls, p \in ParamsSet, o \in OptionsSet : Render(u, p, o)
    \/ Unmount
    \/ \E r \in Requests, outcome \in {"ok", "http", "net", "abort"},
          result \in Bodies \cup {NullData}, reached \in BOOLEAN :
          Settle(r, outcome, result, reached)

Spec == Init /\ [][Next]_vars

InitThrottle == ThrottleInit /\ FetchRendered(1, NullParams, DefaultOptions)

NextThrottle ==
    \/ TMount
    \/ \E v \in Values : ChangeValue(v)
    \/ \E t \in timers : TimerFires(t)
    \/ TUnmount
    \/ Tick

SpecThrottle == InitThrottle /\ [][NextThrottle]_vars

\* useThrottle with timers that run when they are due, a clock that advances
\* and callbacks that are run.
NextPunctual ==
    \/ TMount
    \/ \E v \in Values : ChangeValue(v)
    \/ \E t \in timers : TimerFires(t)
    \/ TUnmount
    \/ TickPunctual

SpecThrottleFair ==
    /\ InitThrottle
    /\ [][NextPunctual]_vars
    /\ WF_vars(TickPunctual)
    /\ WF_vars(\E t \in timers : TimerFires(t))

\* useThrottle with an interval that changes between renders
NextThrottleVar ==
    \/ TMount
    \/ \E v \in Values : ChangeValue(v)
    \/ \E iv \in Intervals : ChangeInterval(iv)
    \/ \E t \in timers : TimerFires(t)
    \/ TUnmount
    \/ Tick

SpecThrottleVar == InitThrottle /\ [][NextThrottleVar]_vars

-----
(* useFetch: properties *)

Issued(r) == req[r].status # "unissued"
InFlight(r) == req[r].status = "inflight"
Live(r) == InFlight(r) /\ ~req[r].aborted
\* the step settles request r
Settles(r) == req[r].status = "inflight" /\ req'[r].status # "inflight"

\* C1: the outcome of a request that a later fetchData call has superseded
\* never changes data, error or loading.
C1_SupersededNeverWrites ==
    [][\A r \in Requests :
          (Settles(r) /\ r # issued) => UNCHANGED <<data, error, loading>>]_vars

\* C2: every request in flight with a non-aborted signal is the one held in
\* activeController, so there is at most one.
C2_OneLiveRequest ==
    /\ \A r \in Requests : Live(r) => activeController = r
    /\ Cardinality({r \in Requests : Live(r)}) <= 1

\* a new fetch was started while another was in flight
C2_Witness ==
    \E r1, r2 \in Requests :
        /\ r1 < r2
        /\ InFlight(r1) /\ req[r1].aborted
        /\ Live(r2) /\ activeController = r2

\* C4: an unmount or a change of baseUrl or of the serialized params aborts the
\* request in flight, and after the unmount data, error and loading do not
\* change.
C4_AbortedAndSilentAfterUnmount ==
    [][/\ ( /\ phase = "mounted"
            /\ \/ phase' = "unmounted"
               \/ baseUrl' # baseUrl
               \/ QueryString(params') # QueryString(params) )
          => \A r \in Requests : InFlight(r) => req'[r].aborted
       /\ phase = "unmounted" => UNCHANGED <<data, error, loading>>]_vars

\* C5: of a POST request and its retry through refetch() (same baseUrl, params
\* and options, the first attempt failed or aborted) the backend processes at
\* most one.
C5_RetryProcessedOnce ==
    ~rerendered =>
        \A r1, r2 \in Requests :
            ( /\ r1 < r2
              /\ req[r1].method = "POST" /\ req[r2].method = "POST"
              /\ req[r1].status \in {"http", "net", "abort"}
              /\ Issued(r2) )
            => ~(req[r1].processed /\ req[r2].processed)

C7_PostKeyIsTheUUID ==
    \A r \in Requests :
        Issued(r) =>
            /\ req[r].method = "POST" => WireKey(req[r].headers) = {generateUUID(r)}
            /\ req[r].method = "GET" => req[r].headers = options.headers

\* C7 as amended: a POST request carries the UUID generated for that request
\* under the property "Idempotency-Key", replacing what options.headers holds
\* under exactly that name; no two requests carry the same UUID; the hook adds
\* none to a GET request.
C7_PostCarriesOwnUUID ==
    /\ \A r \in Requests :
        Issued(r) =>
            /\ req[r].method = "POST" =>
                  /\ <<"Idempotency-Key", generateUUID(r)>> \in req[r].headers
                  /\ \A h \in req[r].headers :
                        h[1] = "Idempotency-Key" => h[2] = generateUUID(r)
            /\ req[r].method = "GET" => req[r].headers = options.headers
    /\ \A r1, r2 \in Requests :
        (Issued(r1) /\ Issued(r2) /\ r1 # r2)
        => (req[r1].headers \cap req[r2].headers) \subseteq options.headers

\* two POST requests issued with an Idempotency-Key in options.headers
C7_Witness ==
    /\ <<"Idempotency-Key", UserKeyValue>> \in options.headers
    /\ \A r \in Requests : Issued(r) /\ req[r].method = "POST"

\* C8: with immediate false no mount and no re-render with other arguments
\* issues a request (only refetch(), which leaves phase and the arguments
\* alone, does); a mount with immediate omitted or true issues exactly one.
C8_ImmediateGatesEffect ==
    [][/\ (options'.immediate = "false" /\ issued' # issued)
          => (phase' = phase /\ UNCHANGED <<baseUrl, params, options>>)
       /\ (phase = "rendered" /\ phase' = "mounted" /\ options.immediate # "false")
          => issued' = issued + 1
       /\ (phase = "rendered" /\ phase' = "mounted" /\ options.immediate = "false")
          => issued' = issued]_vars

\* mounted and re-rendered with immediate false, and no request issued
C8_Witness ==
    /\ phase = "mounted"
    /\ options.immediate = "false"
    /\ rerendered
    /\ issued = 0

\* C9: data changes only in a step in which a request with a non-aborted signal
\* completes successfully, and then to the fetched body.
C9_DataOnlyOnLiveSuccess ==
    [][data' # data =>
          \E r \in Requests :
              Live(r) /\ req'[r].status = "ok" /\ data' \in Bodies]_vars

\* the data of an earlier request is still there while a later one is loading
C9_Witness ==
    /\ data # NullData
    /\ loading
    /\ \E r \in Requests : Live(r)

\* C10: while mounted, loading implies a request in flight with a non-aborted
\* signal.
C10_LoadingHasLiveRequest ==
    (phase = "mounted" /\ loading) => \E r \in Requests : Live(r)

\* C13: a failure of a request with a non-aborted signal sets error to the
\* failure's message and loading to false; every start of a request sets error
\* to null; a request that ends with an AbortError leaves error alone.
C13_ErrorHandling ==
    [][/\ \A r \in Requests :
            /\ (Live(r) /\ req'[r].status \in {"http", "net"})
               => (error' = ErrMessage(req'[r].status) /\ loading' = FALSE)
            /\ (Settles(r) /\ req'[r].status = "abort") => error' = error
       /\ issued' # issued => error' = "null"]_vars

\* a request failed with a non-aborted signal and another ended by abort
C13_Witness ==
    /\ error # "null"
    /\ ~loading
    /\ \E r \in Requests : req[r].status = "abort"
    /\ \E r \in Requests : req[r].status \in {"http", "net"} /\ activeController = r

\* the key-value content of params
Content(p) == <<p.isNull, {p.entries[i] : i \in DOMAIN p.entries}>>

\* C14: a re-render with the same baseUrl, the same content of params (in
\* whatever insertion order) and the same options.immediate aborts nothing and
\* issues nothing, and leaves data, loading and error alone.
C14_SameArgumentsNoRefetch ==
    [][( /\ params' # params \/ rerendered' # rerendered
         /\ baseUrl' = baseUrl
         /\ Content(params') = Content(params)
         /\ options'.immediate = options.immediate )
       => UNCHANGED <<req, issued, activeController, data, loading, error>>]_vars

\* a request in flight since the mount, after a re-render with the keys of
\* params in the other insertion order
C14_Witness ==
    /\ phase = "mounted"
    /\ rerendered
    /\ options.immediate = "undefined"
    /\ params.entries = <<<<2, 1>>, <<1, 1>>>>
    /\ issued = 1
    /\ Live(1)

-----------------------------------------------------------------------------
(* useThrottle: properties *)

\* C3: two successive writes of throttledValue, the initial value at mount
\* being the first, are at least tInterval apart.
C3_WritesAtLeastIntervalApart ==
    Len(writes) = 2 => writes[2] - writes[1] >= tInterval

\* throttledValue has been written twice since mount, last to the current input
C3_Witness ==
    /\ tInterval > 0
    /\ Len(writes) = 2
    /\ writes[1] > 0
    /\ lastUpdated = writes[2]
    /\ throttledValue = tValue
    /\ timers = {}

\* C11: a pending update is due at lastUpdated + tInterval whenever the input
\* changed, and carries the latest input; so, timers running when due, the
\* throttled value differs from the input no longer than until tInterval after
\* the previous update; and when the input stays the same for good while the
\* component is mounted, the throttled value ends up equal to it.
C11_BoundedLag ==
    /\ [](tPhase = "mounted" =>
            /\ \A t \in timers : t[1] = lastUpdated + tInterval /\ t[2] = tValue
            /\ throttledValue # tValue =>
                  (timers # {} /\ now <= lastUpdated + tInterval))
    /\ \A v \in Values :
          <>[](tPhase = "mounted" /\ tValue = v) => <>[](throttledValue = v)

\* an update is pending for an input that changed after the previous update
C11_Witness ==
    /\ tPhase = "mounted"
    /\ throttledValue # tValue
    /\ lastUpdated > 0
    /\ now > lastUpdated
    /\ timers = {<<lastUpdated + tInterval, tValue>>}

\* C12 as stated: an input change at least tInterval after the throttled value
\* last changed (or after the mount) is written at once.
C12_ImmediateAfterLastChange ==
    [][(tValue' # tValue /\ now - changedAt >= tInterval)
       => throttledValue' = tValue']_vars

\* C12 as amended: an input change at least tInterval after the last write of
\* the throttled value (or after the mount) is written at once, and no timer
\* is scheduled.
C12_ImmediateAfterLastWrite ==
    [][(tValue' # tValue /\ now - lastUpdated >= tInterval)
       => /\ throttledValue' = tValue'
          /\ lastUpdated' = now
          /\ timers' \subseteq timers
          /\ cleanup' = NoTimer]_vars

\* the input changed tInterval or more after a write and was written at once
C12_Witness ==
    /\ tInterval > 0
    /\ tPhase = "mounted"
    /\ Len(writes) = 2
    /\ writes[1] > 0
    /\ writes[2] = now
    /\ changedAt = now
    /\ throttledValue = tValue
    /\ cleanup = NoTimer

\* C15: at most one timer is pending, the one the last effect scheduled; none
\* is pending after the unmount, and throttledValue is not written then.
C15_OneTimer ==
    /\ [](/\ Cardinality(timers) <= 1
          /\ timers \subseteq {cleanup}
          /\ tPhase = "unmounted" => timers = {})
    /\ [][tPhase = "unmounted" => UNCHANGED <<throttledValue, lastUpdated, writes>>]_vars

\* unmounted while a timer was pending
C15_Witness ==
    /\ tPhase = "unmounted"
    /\ throttledValue # tValue
    /\ timers = {}

====
